---- MODULE Spec2Model ----
(***************************************************************************)
(* Model of QML/Session3.ipynb: the parameter-shift gradient, the QFI      *)
(* metric tensor, the regularised natural-gradient solve (QNG), the        *)
(* explicit-Euler integrator get_gibbs_state_params and the loss function  *)
(* of the QBM training.                                                    *)
(*                                                                         *)
(* Numbers.  Angles are integers in units of pi/2.  Expectation values are *)
(* integers in units of 1/GradDen, overlaps and metric-tensor entries in   *)
(* units of 1/QfiDen, so that the code's "0.5 *" and "/ 4" are exact       *)
(* integer divisions.  The matrix handed to the solver is in units of      *)
(* 1/(QfiDen*AlphaInv).  Times are integers chosen so that t/n is exact.   *)
(***************************************************************************)
EXTENDS Integers, Sequences, FiniteSets, TLC

VARIABLES
    gframe,   \* the frame of the running call of gradient
    gentry,   \* the parameter values gradient was entered with
    qframe,   \* the frame of the running call of QFI
    qentry,   \* the parameter values QFI was entered with
    t,                  \* module level: the evolution time
    num_time_steps,     \* module level: the number of time steps
    time_steps,         \* module level: the time grid (an array)
    param_values_init,  \* module level: the initial parameter values (an array)
    ansatz_op,          \* module level: StateFn(ansatz)
    lstsq,              \* the behaviour of np.linalg.lstsq
    iframe,   \* the frame of the last call of get_gibbs_state_params
    cframe,   \* the frame of its caller: loss, or the cell that runs the propagation
    calls,    \* the number of calls made
    original, \* param_values_init and time_steps as first defined
    returned  \* the value first returned to each caller

gvars == <<gframe, gentry>>
qvars == <<qframe, qentry>>
globals == <<t, num_time_steps, time_steps, param_values_init, ansatz_op, lstsq>>
ivars == <<globals, iframe, cframe, calls, original, returned>>
vars == <<gvars, qvars, ivars>>

\* ------------------------------------------------------------------ bounds

\* Number of free parameters of the ansatz (16 in the notebook).
NumParams == 2

\* Angles of the entry parameter vectors range over 0..MaxAngle (units of pi/2).
MaxAngle == 1

\* Time grids have 1..MaxGrid points (10 in the notebook).
MaxGrid == 2

\* Calls of loss and of the propagation made in one run.
MaxCalls == 2

\* ------------------------------------------------------- program constants

\* np.pi/2, the unit of angle.
HalfPi == 1

\* np.pi
Pi == 2 * HalfPi

\* "0.5 * (p_shift - m_shift)": expectation values are kept in units of 1/GradDen.
GradDen == 2

\* "qfi_op.eval() / 4": overlaps are kept in units of 1/QfiDen.
QfiDen == 4

\* "alpha = 1e-8": 1/alpha.
AlphaInv == 100000000

Params == 1..NumParams

\* ------------------------------------------------- the simulator (external)

\* cos(x * pi/2) for an integer x.
CosQ(x) == <<1, 0, -1, 0>>[(x % 4) + 1]

\* op.assign_parameters(parameter_dict).eval() for op = ~StateFn(H) @ ansatz_op
\* with H = a*ZZ + b*Z1 + c*Z2 (coefficients op = <<a, b, c>>) on an ansatz
\* whose first two parameters are RY rotations of the two qubits H acts on:
\* <H> = a*cos(th1)*cos(th2) + b*cos(th1) + c*cos(th2), in units of 1/GradDen.
Eval(op, parameter_dict) ==
    LET c1 == CosQ(parameter_dict[1])
        c2 == CosQ(parameter_dict[2])
    IN  GradDen * (op[1] * c1 * c2 + op[2] * c1 + op[3] * c2)

\* ---------------------------------------------------------------- gradient

\* parameter_dict[param] += amount
ShiftParam(parameter_dict, param, amount) ==
    [parameter_dict EXCEPT ![param] = @ + amount]

\* 0.5 * x, exact on values in units of 1/GradDen
Half(x) == x \div GradDen

\* The frame of gradient(op, parameter_dict) on entry.
GradientEntry(op, parameter_dict) ==
    [ pc             |-> IF DOMAIN parameter_dict = {} THEN "return" ELSE "plus",
      op             |-> op,
      parameter_dict |-> parameter_dict,
      param          |-> 1,
      p_shift        |-> 0,
      m_shift        |-> 0,
      gradient       |-> << >> ]

\* parameter_dict[param] += np.pi/2 ; p_shift = op.assign_parameters(parameter_dict).eval()
GradientPlus(f) ==
    LET d == ShiftParam(f.parameter_dict, f.param, HalfPi)
    IN  [f EXCEPT !.parameter_dict = d, !.p_shift = Eval(f.op, d), !.pc = "minus"]

\* GradientMinus with the shift back by pi/2 only.
GradientMinusHalf(f) ==
    LET d == ShiftParam(f.parameter_dict, f.param, -HalfPi)
    IN  [f EXCEPT !.parameter_dict = d, !.m_shift = Eval(f.op, d), !.pc = "restore"]

\* parameter_dict[param] -= np.pi ; m_shift = op.assign_parameters(parameter_dict).eval()
GradientMinus(f) ==
    LET d == ShiftParam(f.parameter_dict, f.param, -Pi)
    IN  [f EXCEPT !.parameter_dict = d, !.m_shift = Eval(f.op, d), !.pc = "restore"]

\* GradientRestore without the restoring shift.
GradientRestoreSkip(f) ==
    [f EXCEPT !.gradient = Append(f.gradient, Half(f.p_shift - f.m_shift)),
              !.param = f.param + 1,
              !.pc = IF f.param + 1 \in DOMAIN f.parameter_dict THEN "plus" ELSE "return"]

\* parameter_dict[param] += np.pi /2 ; gradient += [0.5 * (p_shift - m_shift)] ; next param
GradientRestore(f) ==
    [f EXCEPT !.parameter_dict = ShiftParam(f.parameter_dict, f.param, HalfPi),
              !.gradient = Append(f.gradient, Half(f.p_shift - f.m_shift)),
              !.param = f.param + 1,
              !.pc = IF f.param + 1 \in DOMAIN f.parameter_dict THEN "plus" ELSE "return"]

\* One step of the body of gradient.
GradientStep(f) ==
    CASE f.pc = "plus"    -> GradientPlus(f)
      [] f.pc = "minus"   -> GradientMinus(f)
      [] f.pc = "restore" -> GradientRestore(f)

RECURSIVE GradientRun(_)
GradientRun(f) == IF f.pc = "return" THEN f ELSE GradientRun(GradientStep(f))

\* gradient(op, parameter_dict): the returned list and the dict as it is left.
gradient(op, parameter_dict) == GradientRun(GradientEntry(op, parameter_dict))

\* --------------------------------------------------- QFI (metric tensor)

\* The vector of shifts that takes the parameter values bra to ket.
ShiftOf(bra, ket) == [k \in DOMAIN ket |-> ket[k] - bra[k]]

\* (meas @ state_op.assign_parameters(parameter_dict)).eval() stored into the
\* real array qfi: the real part of the overlap of the state bound at meas with
\* the state bound at parameter_dict, in units of 1/QfiDen.  state_op is the
\* table of that overlap by shift vector; a shift it does not list overlaps 0.
Overlap(state_op, meas, parameter_dict) ==
    LET s == ShiftOf(meas, parameter_dict)
    IN  IF s \in DOMAIN state_op THEN state_op[s] ELSE 0

\* x / 4, exact on values in units of 1/QfiDen
Quarter(x) == x \div QfiDen

\* The term added to entry (j, i) as well as to entry (i, j).
QfiAddBoth(qfi, i, j, sign, ov) ==
    [k \in DOMAIN qfi |-> [l \in DOMAIN qfi[k] |->
        IF <<k, l>> \in {<<i, j>>, <<j, i>>} THEN qfi[k][l] + sign * (ov \div QfiDen)
        ELSE qfi[k][l]]]

\* qfi[i, j] += sign * qfi_op.eval() / 4
QfiAdd(qfi, i, j, sign, ov) == [qfi EXCEPT ![i][j] = @ + sign * Quarter(ov)]

\* The frame of QFI(state_op, parameter_dict) on entry:
\* meas = ~state_op.assign_parameters(parameter_dict) ; qfi = np.zeros((n, n)).
\* ket and evals record the parameters of the last overlap evaluation and the
\* number of evaluations made.
QFIEntry(state_op, parameter_dict) ==
    [ pc             |-> IF DOMAIN parameter_dict = {} THEN "return" ELSE "pp",
      state_op       |-> state_op,
      meas           |-> parameter_dict,
      parameter_dict |-> parameter_dict,
      i              |-> 1,
      j              |-> 1,
      qfi            |-> [k \in DOMAIN parameter_dict |-> [l \in DOMAIN parameter_dict |-> 0]],
      ket            |-> parameter_dict,
      evals          |-> 0 ]

\* qfi_op = meas @ state_op.assign_parameters(parameter_dict) ; qfi[i, j] (+/-)= qfi_op.eval() / 4
QFIEvaluate(f, d, sign, next) ==
    [f EXCEPT !.parameter_dict = d,
              !.qfi = QfiAdd(f.qfi, f.i, f.j, sign, Overlap(f.state_op, f.meas, d)),
              !.ket = d,
              !.evals = f.evals + 1,
              !.pc = next]

\* parameter_dict[param_i] += np.pi /2 ; parameter_dict[param_j] += np.pi /2 ; qfi[i, j] += ...
QFIPlusPlus(f) ==
    QFIEvaluate(f, ShiftParam(ShiftParam(f.parameter_dict, f.i, HalfPi), f.j, HalfPi), 1, "pm")

\* QFIPlusMinus with param_j shifted back by pi/2 only.
QFIPlusMinusHalf(f) ==
    QFIEvaluate(f, ShiftParam(f.parameter_dict, f.j, -HalfPi), -1, "mm")

\* parameter_dict[param_j] -= np.pi ; qfi[i, j] -= ...
QFIPlusMinus(f) ==
    QFIEvaluate(f, ShiftParam(f.parameter_dict, f.j, -Pi), -1, "mm")

\* QFIMinusMinus with the term subtracted.
QFIMinusMinusNeg(f) ==
    QFIEvaluate(f, ShiftParam(f.parameter_dict, f.i, -Pi), -1, "mp")

\* parameter_dict[param_i] -= np.pi ; qfi[i, j] += ...
QFIMinusMinus(f) ==
    QFIEvaluate(f, ShiftParam(f.parameter_dict, f.i, -Pi), 1, "mp")

\* QFIMinusPlus with the term left out.
QFIMinusPlusDropped(f) ==
    QFIEvaluate(f, ShiftParam(f.parameter_dict, f.j, Pi), 0, "restore")

\* parameter_dict[param_j] += np.pi ; qfi[i, j] -= ...
QFIMinusPlus(f) ==
    QFIEvaluate(f, ShiftParam(f.parameter_dict, f.j, Pi), -1, "restore")

\* QFIRestore without the restoring shifts.
QFIRestoreSkip(f) ==
    LET n  == Cardinality(DOMAIN f.parameter_dict)
        ni == IF f.j = n THEN f.i + 1 ELSE f.i
        nj == IF f.j = n THEN 1 ELSE f.j + 1
    IN  [f EXCEPT !.i = ni, !.j = nj, !.pc = IF ni > n THEN "return" ELSE "pp"]

\* QFIRestore with param_j not shifted back.
QFIRestoreHalf(f) ==
    LET n  == Cardinality(DOMAIN f.parameter_dict)
        ni == IF f.j = n THEN f.i + 1 ELSE f.i
        nj == IF f.j = n THEN 1 ELSE f.j + 1
    IN  [f EXCEPT !.parameter_dict = ShiftParam(f.parameter_dict, f.i, HalfPi),
                  !.i = ni,
                  !.j = nj,
                  !.pc = IF ni > n THEN "return" ELSE "pp"]

\* parameter_dict[param_i] += np.pi/2 ; parameter_dict[param_j] -= np.pi/2 ; next (i, j)
QFIRestore(f) ==
    LET n  == Cardinality(DOMAIN f.parameter_dict)
        ni == IF f.j = n THEN f.i + 1 ELSE f.i
        nj == IF f.j = n THEN 1 ELSE f.j + 1
    IN  [f EXCEPT !.parameter_dict =
                      ShiftParam(ShiftParam(f.parameter_dict, f.i, HalfPi), f.j, -HalfPi),
                  !.i = ni,
                  !.j = nj,
                  !.pc = IF ni > n THEN "return" ELSE "pp"]

\* One step of the body of QFI.
QFIStep(f) ==
    CASE f.pc = "pp"      -> QFIPlusPlus(f)
      [] f.pc = "pm"      -> QFIPlusMinus(f)
      [] f.pc = "mm"      -> QFIMinusMinus(f)
      [] f.pc = "mp"      -> QFIMinusPlus(f)
      [] f.pc = "restore" -> QFIRestore(f)

RECURSIVE QFIRun(_)
QFIRun(f) == IF f.pc = "return" THEN f ELSE QFIRun(QFIStep(f))

\* QFI(state_op, parameter_dict): the returned matrix and the dict as it is left.
QFI(state_op, parameter_dict) == QFIRun(QFIEntry(state_op, parameter_dict))

\* ------------------------------------------------------------ the ansatz

ZeroShift == [k \in Params |-> 0]

\* Shifts of one parameter by +pi or -pi (the diagonal entries of QFI).
DiagShifts ==
    { s \in [Params -> {-Pi, 0, Pi}] : Cardinality({k \in Params : s[k] # 0}) = 1 }

\* Shifts of two distinct parameters by +-pi/2 each (the off-diagonal entries).
OffDiagShifts ==
    { s \in [Params -> {-HalfPi, 0, HalfPi}] : Cardinality({k \in Params : s[k] # 0}) = 2 }

\* Overlap values off the diagonal: 0 or 1 (in units of 1/QfiDen).
OvVals == {0, QfiDen}

\* The overlap table of a Pauli-rotation ansatz: the state's overlap with itself
\* is 1, the real part of its overlap with the state shifted by +-pi in one
\* parameter is 0, and free is its overlap under two shifts by +-pi/2.
PauliStateOp(free) ==
    [s \in {ZeroShift} \cup DiagShifts \cup OffDiagShifts |->
        IF s = ZeroShift THEN QfiDen
        ELSE IF s \in DiagShifts THEN 0
        ELSE free[s]]

\* The ansatz states considered: at most two off-diagonal shifts overlap.
StateOps ==
    { PauliStateOp(free) :
        free \in { g \in [OffDiagShifts -> OvVals] :
                      Cardinality({s \in OffDiagShifts : g[s] # 0}) <= 2 } }

\* Entry parameter values.
ParamValues == [Params -> 0..MaxAngle]

\* Hamiltonian coefficients <<a, b, c>>.
Coeffs == {-1, 0, 1}
Ops == Coeffs \X Coeffs \X Coeffs

\* The empty parameter mapping.
NoDict == << >>

\* ------------------------------------------------------------------- QNG

\* qfi + alpha * np.diag(qfi), in units of 1/(QfiDen*AlphaInv).  np.diag of a
\* matrix is the vector of its diagonal, and numpy adds a vector to every row
\* of a matrix: entry (k,l) gets alpha * qfi[l][l].
Regularize(qfi) ==
    [k \in DOMAIN qfi |-> [l \in DOMAIN qfi |-> qfi[k][l] * AlphaInv + qfi[l][l]]]

\* grad = gradient(op, parameter_dict) ; qfi = QFI(state_op, parameter_dict) ;
\* the matrix qfi + alpha * np.diag(qfi).  QFI is given the dict as gradient
\* left it; meas and parameter_dict are QFI's bound state and the dict as it
\* is left.
QNGSystem(op, state_op, parameter_dict) ==
    LET g == gradient(op, parameter_dict)
        q == QFI(state_op, g.parameter_dict)
    IN  [ grad           |-> g.gradient,
          qfi            |-> q.qfi,
          lhs            |-> Regularize(q.qfi),
          meas           |-> q.meas,
          parameter_dict |-> q.parameter_dict ]

RECURSIVE SumTo(_, _)
SumTo(f, n) == IF n = 0 THEN 0 ELSE f[n] + SumTo(f, n - 1)

\* The solutions the solver may return for a nonzero right-hand side.
Solutions == { [k \in Params |-> IF k <= m THEN 1 ELSE 0] : m \in 0..NumParams }

\* np.linalg.lstsq is a function of (matrix, right-hand side) that the model
\* does not compute: its answer is solver[c], where c is one of two classes
\* of the input and solver is fixed for the run.
Solvers == [{0, 1} -> Solutions]

SolverClass(lhs, rhs) ==
    LET n == Len(rhs)
    IN  ( SumTo([k \in 1..n |-> k * rhs[k]], n)
        + SumTo([k \in 1..n |-> SumTo([l \in 1..n |-> lhs[k][l] \div AlphaInv], n)], n) ) % 2

\* np.linalg.lstsq(lhs, rhs, rcond=None)[0]; the least-squares solution of
\* least norm for a zero right-hand side is zero.
Lstsq(solver, lhs, rhs) ==
    IF \A k \in DOMAIN rhs : rhs[k] = 0
    THEN [k \in DOMAIN rhs |-> 0]
    ELSE solver[SolverClass(lhs, rhs)]

\* QNG(op, state_op, parameter_dict)
QNG(op, state_op, parameter_dict) ==
    LET sys == QNGSystem(op, state_op, parameter_dict)
    IN  Lstsq(lstsq, sys.lhs, sys.grad)

\* ------------------------------------------------ get_gibbs_state_params

Min(a, b) == IF a <= b THEN a ELSE b

\* The notebook's ansatz: its ordered parameters.
ansatz == [ordered_parameters |-> [k \in Params |-> k]]

\* np.linspace(0, stop, num)
Linspace(stop, num) ==
    [i \in 1..num |-> IF num = 1 THEN 0 ELSE (i - 1) * (stop \div (num - 1))]

\* dict(zip(keys, values)); the k-th parameter of the ansatz is named k, so
\* the mapping is the list of the first values.
Zip(keys, values) == SubSeq(values, 1, Min(Len(keys), Len(values)))

\* A name bound to the module-level array param_values_init, or to a list of
\* its own.
InitRef == [ref |-> "param_values_init", val |-> << >>]
ListRef(values) == [ref |-> "list", val |-> values]

\* The values of the module-level array, whatever the name refers to.
DerefInit(r) == param_values_init

\* The values a name refers to.
Deref(r) == IF r.ref = "param_values_init" THEN param_values_init ELSE r.val

\* The spacing of the module-level time grid.
StepSizeSpacing == IF Len(time_steps) >= 2 THEN time_steps[2] - time_steps[1] ELSE t

\* t/num_time_steps
StepSize == t \div num_time_steps

\* numpy broadcasts two vectors of equal length, or of which one has length 1;
\* for any other pair of lengths np.subtract raises ValueError.
Broadcasts(a, b) == Len(a) = Len(b) \/ Len(a) = 1 \/ Len(b) = 1

\* np.subtract(param_values, delta * nat_grad_result), for vectors that broadcast
Subtract(values, delta, nat_grad_result) ==
    LET m == IF Len(values) >= Len(nat_grad_result) THEN Len(values) ELSE Len(nat_grad_result)
        a(k) == IF Len(values) = 1 THEN values[1] ELSE values[k]
        b(k) == IF Len(nat_grad_result) = 1 THEN nat_grad_result[1] ELSE nat_grad_result[k]
    IN  [k \in 1..m |-> a(k) - delta * b(k)]

\* The update written into the array the name refers to.
AssignInPlace(r, values) ==
    IF r.ref = "param_values_init"
    THEN [param_values |-> r, param_values_init |-> values]
    ELSE [param_values |-> ListRef(values), param_values_init |-> param_values_init]

\* param_values = list(...): the name is bound to a new list, and the array it
\* referred to is left as it is.
Assign(r, values) ==
    [param_values |-> ListRef(values), param_values_init |-> param_values_init]

\* The loop left one grid point early.
LoopDoneEarly(step, grid) == step >= Len(grid)

\* for step in time_steps: the loop is done when every grid point is consumed.
LoopDone(step, grid) == step > Len(grid)

\* The frame of get_gibbs_state_params(op, ansatz, param_values, time_steps) on
\* entry.  updates counts the Euler updates; delta, grad, qfi, lhs, meas,
\* param_dict and nat_grad_result are those of the last update.
IntegratorEntry(op, ans, param_values, grid) ==
    [ pc              |-> IF LoopDone(1, grid) THEN "return" ELSE "loop",
      op              |-> op,
      ansatz          |-> ans,
      param_values    |-> param_values,
      time_steps      |-> grid,
      step            |-> 1,
      updates         |-> 0,
      delta           |-> 0,
      param_dict      |-> NoDict,
      meas            |-> NoDict,
      grad            |-> << >>,
      qfi             |-> << >>,
      lhs             |-> << >>,
      nat_grad_result |-> << >>,
      raised          |-> "none" ]

\* One iteration of the loop:
\*   param_dict = dict(zip(ansatz.ordered_parameters, param_values))
\*   nat_grad_result = np.real(QNG(op, ansatz_op, param_dict))
\*   param_values = list(np.subtract(param_values, t/num_time_steps * nat_grad_result))
\* The result is the frame and the module-level array param_values_init.
\* zip stops at the shorter of its arguments and raises nothing.  With fewer
\* values than parameters the dict leaves parameters of op unbound and the
\* first evaluation of gradient raises; with more, the dict holds the first
\* values, QNG is computed, and np.subtract raises ValueError.
IntegratorIteration(f) ==
    LET values == Deref(f.param_values)
        d      == Zip(f.ansatz.ordered_parameters, values)
        sys    == QNGSystem(f.op, ansatz_op, d)
        ng     == Lstsq(lstsq, sys.lhs, sys.grad)
        new    == Assign(f.param_values, Subtract(values, StepSize, ng))
    IN  IF Len(d) < Len(f.ansatz.ordered_parameters)
        THEN [ frame |-> [f EXCEPT !.param_dict = d, !.pc = "error", !.raised = "unbound parameters"],
               param_values_init |-> param_values_init ]
        ELSE IF ~Broadcasts(values, ng)
        THEN [ frame |-> [f EXCEPT !.delta = StepSize,
                                   !.param_dict = sys.parameter_dict,
                                   !.meas = sys.meas,
                                   !.grad = sys.grad,
                                   !.qfi = sys.qfi,
                                   !.lhs = sys.lhs,
                                   !.nat_grad_result = ng,
                                   !.pc = "error",
                                   !.raised = "ValueError"],
               param_values_init |-> param_values_init ]
        ELSE
        [ frame |-> [f EXCEPT !.param_values = new.param_values,
                              !.step = f.step + 1,
                              !.updates = f.updates + 1,
                              !.delta = StepSize,
                              !.param_dict = sys.parameter_dict,
                              !.meas = sys.meas,
                              !.grad = sys.grad,
                              !.qfi = sys.qfi,
                              !.lhs = sys.lhs,
                              !.nat_grad_result = ng,
                              !.pc = IF LoopDone(f.step + 1, f.time_steps)
                                     THEN "return" ELSE "loop"],
          param_values_init |-> new.param_values_init ]

\* ------------------------------------------------------------------ loss

\* p_target = [0.5, 0, 0, 0.5], in units of 1/2
p_target == <<1, 0, 0, 1>>

\* 2 * cos(x * pi/4)^2: twice the probability of outcome 0 of a qubit rotated
\* by RY(x * pi/2) from |0>.
TwiceP0(x) == <<2, 1, 0, 1>>[(x % 4) + 1]

\* np.diag(partial_trace(ansatz_op.assign_parameters(...).eval().primitive, [0, 1]).data):
\* the probabilities of the four outcomes of the two visible qubits, in units
\* of 1/4.
Probabilities(parameter_dict) ==
    LET a1 == TwiceP0(parameter_dict[1])
        a2 == TwiceP0(parameter_dict[2])
    IN  <<a1 * a2, a1 * (2 - a2), (2 - a1) * a2, (2 - a1) * (2 - a2)>>

\* -np.sum(np.multiply(p_target, np.log(p_qbm))): np.log(0) is -inf, 0 * -inf is
\* nan, and neither raises.  A finite value is kept as the terms it sums.
Loss(target, p_qbm) ==
    LET n == Min(Len(target), Len(p_qbm))
    IN  IF \E k \in 1..n : p_qbm[k] = 0 /\ target[k] = 0 THEN [kind |-> "nan", terms |-> << >>]
        ELSE IF \E k \in 1..n : p_qbm[k] = 0 THEN [kind |-> "inf", terms |-> << >>]
        ELSE [kind |-> "finite", terms |-> [k \in 1..n |-> <<target[k], p_qbm[k]>>]]

\* The frame of a caller of get_gibbs_state_params that has not called yet.
CallerIdle ==
    [ pc |-> "idle", caller |-> "none", H_coeffs |-> <<0, 0, 0>>,
      param_values |-> << >>, p_qbm |-> << >>, loss_fn |-> [kind |-> "none", terms |-> << >>] ]

\* Frames of calls that are not running.
GradientIdle == GradientEntry(<<0, 0, 0>>, NoDict)
QFIIdle == QFIEntry(PauliStateOp([s \in OffDiagShifts |-> 0]), NoDict)
IntegratorIdle == [IntegratorEntry(<<0, 0, 0>>, ansatz, InitRef, << >>) EXCEPT !.pc = "idle"]

\* The notebook with no propagation defined.
IdleNotebook ==
    /\ t = 0
    /\ num_time_steps = 1
    /\ time_steps = << >>
    /\ param_values_init = << >>
    /\ ansatz_op = QFIIdle.state_op
    /\ lstsq = [c \in {0, 1} |-> [k \in Params |-> 0]]
    /\ iframe = IntegratorIdle
    /\ cframe = CallerIdle
    /\ calls = 0
    /\ original = [param_values_init |-> << >>, time_steps |-> << >>]
    /\ returned = << >>

\* ------------------------------------- gradient, statement by statement

InitGradient ==
    /\ gentry \in ParamValues
    /\ \E op \in Ops : gframe = GradientEntry(op, gentry)
    /\ qframe = QFIIdle
    /\ qentry = NoDict
    /\ IdleNotebook

GradPlus ==
    /\ gframe.pc = "plus"
    /\ gframe' = GradientStep(gframe)
    /\ UNCHANGED <<gentry, qvars, ivars>>

GradMinus ==
    /\ gframe.pc = "minus"
    /\ gframe' = GradientStep(gframe)
    /\ UNCHANGED <<gentry, qvars, ivars>>

GradRestore ==
    /\ gframe.pc = "restore"
    /\ gframe' = GradientStep(gframe)
    /\ UNCHANGED <<gentry, qvars, ivars>>

NextGradient == GradPlus \/ GradMinus \/ GradRestore

SpecGradient == InitGradient /\ [][NextGradient]_vars

\* ------------------------------------------ QFI, statement by statement

InitQFI ==
    /\ qentry \in ParamValues
    /\ \E state_op \in StateOps : qframe = QFIEntry(state_op, qentry)
    /\ gframe = GradientIdle
    /\ gentry = NoDict
    /\ IdleNotebook

QfiPlusPlus ==
    /\ qframe.pc = "pp"
    /\ qframe' = QFIStep(qframe)
    /\ UNCHANGED <<qentry, gvars, ivars>>

QfiPlusMinus ==
    /\ qframe.pc = "pm"
    /\ qframe' = QFIStep(qframe)
    /\ UNCHANGED <<qentry, gvars, ivars>>

QfiMinusMinus ==
    /\ qframe.pc = "mm"
    /\ qframe' = QFIStep(qframe)
    /\ UNCHANGED <<qentry, gvars, ivars>>

QfiMinusPlus ==
    /\ qframe.pc = "mp"
    /\ qframe' = QFIStep(qframe)
    /\ UNCHANGED <<qentry, gvars, ivars>>

QfiRestore ==
    /\ qframe.pc = "restore"
    /\ qframe' = QFIStep(qframe)
    /\ UNCHANGED <<qentry, gvars, ivars>>

NextQFI == QfiPlusPlus \/ QfiPlusMinus \/ QfiMinusMinus \/ QfiMinusPlus \/ QfiRestore

SpecQFI == InitQFI /\ [][NextQFI]_vars

\* ------------------------------------- the propagation and the training

RECURSIVE Factorial(_)
Factorial(n) == IF n <= 1 THEN 1 ELSE n * Factorial(n - 1)

\* Evolution times: such that t/n and t/(n-1) are whole for every grid size n.
Times == {Factorial(MaxGrid)}

\* Initial parameter values: zero, but for leading entries of pi/2.
InitValues == { [k \in Params |-> IF k <= m THEN HalfPi ELSE 0] : m \in 0..NumParams }

\* Parameter vectors with one value fewer and one value more than the ansatz
\* has parameters.
MismatchedValues == { [k \in 1..n |-> 0] : n \in {NumParams - 1, NumParams + 1} }

\* The ansatz states of the propagation: no off-diagonal overlap, or one.
NotebookStateOps ==
    { PauliStateOp([s \in OffDiagShifts |-> IF \A k \in Params : s[k] >= 0 THEN v ELSE 0]) :
        v \in OvVals }

\* The Hamiltonian coefficients tried.
HCoeffs == {<<1, 0, 0>>, <<0, 1, -1>>, <<-1, 1, 0>>}

Init ==
    /\ t \in Times
    /\ num_time_steps \in 1..MaxGrid
    /\ time_steps = Linspace(t, num_time_steps)
    /\ param_values_init \in InitValues \cup MismatchedValues
    /\ ansatz_op \in NotebookStateOps
    /\ lstsq \in Solvers
    /\ iframe = IntegratorIdle
    /\ cframe = CallerIdle
    /\ calls = 0
    /\ original = [param_values_init |-> param_values_init, time_steps |-> time_steps]
    /\ returned = << >>
    /\ gframe = GradientIdle
    /\ gentry = NoDict
    /\ qframe = QFIIdle
    /\ qentry = NoDict

\* The caller's frame at its call of get_gibbs_state_params, for the operator
\* built from the coefficients h.
Call(caller, h) ==
    [CallerIdle EXCEPT !.pc = "call", !.caller = caller, !.H_coeffs = h]

\* loss(H_coeffs), up to its call
\*   get_gibbs_state_params(op, ansatz, param_values_init, time_steps)
CallLoss ==
    /\ cframe.pc \in {"idle", "done", "raised"}
    /\ calls < MaxCalls
    /\ calls' = calls + 1
    /\ \E h \in HCoeffs :
          /\ cframe' = Call("loss", h)
          /\ iframe' = IntegratorEntry(h, ansatz, InitRef, time_steps)
    /\ UNCHANGED <<globals, original, returned, gvars, qvars>>

\* The cell that runs the propagation for an operator op:
\*   get_gibbs_state_params(op, ansatz, param_values_init, time_steps)
RunPropagation ==
    /\ cframe.pc \in {"idle", "done", "raised"}
    /\ calls < MaxCalls
    /\ calls' = calls + 1
    /\ \E h \in HCoeffs :
          /\ cframe' = Call("cell", h)
          /\ iframe' = IntegratorEntry(h, ansatz, InitRef, time_steps)
    /\ UNCHANGED <<globals, original, returned, gvars, qvars>>

\* One iteration of the loop of get_gibbs_state_params; an exception it raises
\* propagates through get_gibbs_state_params and its caller, which handle none.
IntegratorStep ==
    /\ iframe.pc = "loop"
    /\ LET r == IntegratorIteration(iframe)
       IN  /\ iframe' = r.frame
           /\ param_values_init' = r.param_values_init
           /\ cframe' = IF r.frame.pc = "error"
                        THEN [cframe EXCEPT !.pc = "raised"]
                        ELSE cframe
    /\ UNCHANGED <<t, num_time_steps, time_steps, ansatz_op, lstsq,
                   calls, original, returned, gvars, qvars>>

\* The value a caller gets is recorded the first time it gets one.
Record(key, value) ==
    IF key \in DOMAIN returned THEN returned ELSE returned @@ (key :> value)

\* return param_values, to loss: p_qbm, loss_fn and return np.real(loss_fn)
LossReturn ==
    /\ iframe.pc = "return"
    /\ cframe.pc = "call"
    /\ cframe.caller = "loss"
    /\ LET values == Deref(iframe.param_values)
           p_qbm  == Probabilities(Zip(ansatz.ordered_parameters, values))
           value  == Loss(p_target, p_qbm)
       IN  /\ cframe' = [cframe EXCEPT !.pc = "done", !.param_values = values,
                                       !.p_qbm = p_qbm, !.loss_fn = value]
           /\ returned' = Record(<<"loss", cframe.H_coeffs>>, value)
    /\ UNCHANGED <<globals, iframe, calls, original, gvars, qvars>>

\* return param_values, to the cell
PropagationReturn ==
    /\ iframe.pc = "return"
    /\ cframe.pc = "call"
    /\ cframe.caller = "cell"
    /\ LET values == Deref(iframe.param_values)
       IN  /\ cframe' = [cframe EXCEPT !.pc = "done", !.param_values = values]
           /\ returned' = Record(<<"cell", cframe.H_coeffs>>, values)
    /\ UNCHANGED <<globals, iframe, calls, original, gvars, qvars>>

Next == CallLoss \/ RunPropagation \/ IntegratorStep \/ LossReturn \/ PropagationReturn

Spec == Init /\ [][Next]_vars

\* ------------------------- the propagation under other module-level values

\* Values of the module-level name t: the notebook's, and twice that.
AmbientTimes == Times \cup {2 * tt : tt \in Times}

\* Between two calls the cells that assign the module-level names t (line
\* 100), ansatz_op (line 243) and num_time_steps (line 583) are executed with
\* other values; ansatz, param_values_init and time_steps, the arguments of the
\* calls, stay as they are.
Rebind ==
    /\ cframe.pc \in {"done", "raised"}
    /\ calls < MaxCalls
    /\ \E tt \in AmbientTimes : \E n \in 1..MaxGrid : \E a \in NotebookStateOps :
          /\ <<tt, n, a>> # <<t, num_time_steps, ansatz_op>>
          /\ t' = tt
          /\ num_time_steps' = n
          /\ ansatz_op' = a
    /\ UNCHANGED <<time_steps, param_values_init, lstsq,
                   iframe, cframe, calls, original, returned, gvars, qvars>>

NextAmbient == Next \/ Rebind

SpecAmbient == Init /\ [][NextAmbient]_vars

\* ================================================================ claims

\* The entry values of QFI with parameter k shifted by sk and l by sl (k # l).
QfiShifted(k, sk, l, sl) == [qentry EXCEPT ![k] = @ + sk, ![l] = @ + sl]

\* O(sk, sl): the overlap of the unshifted state with the state whose parameter
\* k is shifted by sk*pi/2 and parameter l by sl*pi/2.
O(k, sk, l, sl) ==
    Overlap(qframe.state_op, qentry, QfiShifted(k, sk * HalfPi, l, sl * HalfPi))

\* O(+,+) - O(+,-) + O(-,-) - O(-,+)
CodeStencil(k, l) == O(k, 1, l, 1) - O(k, 1, l, -1) + O(k, -1, l, -1) - O(k, -1, l, 1)

\* O(+,+) - O(+,-) + O(-,+) - O(-,-)
ClaimStencil(k, l) == O(k, 1, l, 1) - O(k, 1, l, -1) + O(k, -1, l, 1) - O(k, -1, l, -1)

\* C1 (as stated): for every ordered pair (k,l), k # l, the returned entry (k,l)
\* is 1/4 * [O(+,+) - O(+,-) + O(-,+) - O(-,-)].
C1_Original ==
    qframe.pc = "return" =>
        \A k \in DOMAIN qentry : \A l \in DOMAIN qentry \ {k} :
            QfiDen * qframe.qfi[k][l] = ClaimStencil(k, l)

\* C1 (amended): for every ordered pair (k,l), k # l, the returned entry (k,l)
\* is 1/4 * [O(+,+) - O(+,-) - O(-,+) + O(-,-)]: the (-,-) term has weight
\* +1/4 and the (-,+) term weight -1/4.
C1_Stencil ==
    qframe.pc = "return" =>
        \A k \in DOMAIN qentry : \A l \in DOMAIN qentry \ {k} :
            QfiDen * qframe.qfi[k][l] = CodeStencil(k, l)

\* QFI has returned a matrix with an off-diagonal entry on which the two
\* stencils differ.
C1_Witness ==
    /\ qframe.pc = "return"
    /\ qframe.evals > 0
    /\ \E k \in DOMAIN qentry : \E l \in DOMAIN qentry \ {k} :
          /\ qframe.qfi[k][l] # 0
          /\ CodeStencil(k, l) # ClaimStencil(k, l)

\* C5: component k of the gradient is 0.5 * (E(theta, k shifted by +pi/2) -
\* E(theta, k shifted by -pi/2)), every other component at its entry value, and
\* the components come in the order of the parameters, one for each.
C5_Gradient ==
    /\ \A k \in 1..Len(gframe.gradient) :
          GradDen * gframe.gradient[k] =
              Eval(gframe.op, [gentry EXCEPT ![k] = @ + HalfPi])
            - Eval(gframe.op, [gentry EXCEPT ![k] = @ - HalfPi])
    /\ gframe.pc = "return" => Len(gframe.gradient) = Cardinality(DOMAIN gentry)

\* gradient has returned one component for each parameter, not all of them zero.
C5_Witness ==
    /\ gframe.pc = "return"
    /\ Len(gframe.gradient) = NumParams
    /\ \E k \in 1..NumParams : gframe.gradient[k] # 0
    /\ \E k \in 1..NumParams : gframe.gradient[k] = 0

\* C6: at the start of every iteration of gradient's loop and when gradient
\* returns, the parameter mapping holds exactly its entry values.
C6_Restored ==
    gframe.pc \in {"plus", "return"} => gframe.parameter_dict = gentry

\* gradient has shifted and restored every parameter and returns.
C6_Witness ==
    /\ gframe.pc = "return"
    /\ gframe.param = NumParams + 1
    /\ gframe.parameter_dict = gentry
    /\ gframe.p_shift # gframe.m_shift

\* The signs of the shifts of parameters i and j in the evaluation just made.
SignI == IF qframe.pc \in {"pm", "mm"} THEN 1 ELSE -1
SignJ == IF qframe.pc \in {"pm", "restore"} THEN 1 ELSE -1

\* C7: in every overlap evaluation of QFI the measurement (bra) is the state at
\* the entry values, and the shifted (ket) state differs from the entry values
\* only in the parameters i and j of the pair being processed, by that
\* evaluation's own shifts of +-pi/2: no shift of an earlier pair is left.
C7_BraKet ==
    qframe.pc \in {"pm", "mm", "mp", "restore"} =>
        /\ qframe.meas = qentry
        /\ \A p \in DOMAIN qentry \ {qframe.i, qframe.j} : qframe.ket[p] = qentry[p]
        /\ \A p \in DOMAIN qentry :
              qframe.ket[p] = qentry[p]
                  + (IF p = qframe.i THEN SignI * HalfPi ELSE 0)
                  + (IF p = qframe.j THEN SignJ * HalfPi ELSE 0)

\* An evaluation of the last diagonal pair, after all earlier pairs, with the
\* parameter shifted.
C7_Witness ==
    /\ qframe.pc = "mp"
    /\ qframe.i = NumParams
    /\ qframe.j = NumParams
    /\ qframe.evals = 4 * (NumParams * NumParams - 1) + 3
    /\ qframe.ket[NumParams] = qentry[NumParams] - Pi
    /\ \A p \in DOMAIN qentry \ {NumParams} : qframe.ket[p] = qentry[p]

\* C8: for any theta and every k the returned entry (k,k) is -0.5 (for a
\* Pauli-rotation ansatz).
C8_Diagonal ==
    qframe.pc = "return" =>
        \A k \in DOMAIN qentry : 2 * qframe.qfi[k][k] = -QfiDen

\* QFI has returned for a nonzero theta and an ansatz with nonzero
\* off-diagonal entries.
C8_Witness ==
    /\ qframe.pc = "return"
    /\ qframe.evals > 0
    /\ \E k \in DOMAIN qentry : qentry[k] # 0
    /\ \E k \in DOMAIN qentry : \E l \in DOMAIN qentry \ {k} : qframe.qfi[k][l] # 0
    /\ \A k \in DOMAIN qentry : qframe.qfi[k][k] < 0

\* The regularisation added along the diagonal only, to a matrix in units of
\* 1/QfiDen: the result in units of 1/(QfiDen * AlphaInv).
DiagonalOnly(M) ==
    [k \in DOMAIN M |-> [l \in DOMAIN M[k] |->
        IF k = l THEN M[k][k] * (AlphaInv + 1) ELSE M[k][l] * AlphaInv]]

\* C2 (as stated): the matrix of the natural-gradient solve is M with
\* alpha * M[k][k] added to entry (k,k) and every off-diagonal entry unchanged.
C2_DiagonalOnly ==
    iframe.updates > 0 => iframe.lhs = DiagonalOnly(iframe.qfi)

\* C3 (as stated): the integrator returns after len(time_grid) - 1 updates.
C3_Original ==
    iframe.pc = "return" => iframe.updates = Len(iframe.time_steps) - 1

\* C3 (amended): the integrator performs exactly one Euler update per grid
\* point, len(time_grid) updates of theta, and returns when the grid is
\* exhausted: while it loops it has made fewer updates than there are points.
C3_Updates ==
    /\ iframe.pc = "return" => iframe.updates = Len(iframe.time_steps)
    /\ iframe.pc = "loop" => iframe.updates < Len(iframe.time_steps)
    /\ iframe.pc \in {"loop", "return"} => iframe.step = iframe.updates + 1

\* The integrator has returned from a grid of two points or more.
C3_Witness ==
    /\ iframe.pc = "return"
    /\ Len(iframe.time_steps) >= 2
    /\ iframe.updates = Len(iframe.time_steps)
    /\ iframe.delta > 0

\* C4 (as stated): the step size of every Euler update is the spacing of the
\* supplied grid, t/(n-1) for n evenly spaced points from 0 to t.
C4_GridSpacing ==
    (iframe.updates > 0 /\ Len(iframe.time_steps) >= 2) =>
        /\ iframe.delta = iframe.time_steps[2] - iframe.time_steps[1]
        /\ iframe.delta * (Len(iframe.time_steps) - 1) = t

\* The theta produced by the step before the next one: theta_init before the
\* first step.
Theta(f) == IF f.updates = 0 THEN original.param_values_init ELSE f.param_values.val

\* C9: every step computes the natural gradient (gradient, metric tensor and
\* solve) at the theta produced by the step before it, theta_init for the first
\* step, and replaces every component of theta by theta - Delta * natural
\* gradient.
C9_Sequential ==
    [][ iframe'.updates = iframe.updates + 1 =>
          LET theta == Theta(iframe)
              ng    == iframe'.nat_grad_result
          IN  /\ iframe'.param_dict = theta
              /\ iframe'.meas = theta
              /\ iframe'.grad = gradient(iframe.op, theta).gradient
              /\ iframe'.qfi = QFI(ansatz_op, theta).qfi
              /\ ng = Lstsq(lstsq, iframe'.lhs, iframe'.grad)
              /\ Theta(iframe') = [k \in DOMAIN theta |-> theta[k] - iframe'.delta * ng[k]]
      ]_vars

\* A second step was made from a theta that the first step had changed, and
\* its natural gradient is not zero.
C9_Witness ==
    /\ iframe.updates >= 2
    /\ iframe.param_dict # original.param_values_init
    /\ \E k \in DOMAIN iframe.nat_grad_result : iframe.nat_grad_result[k] # 0
    /\ iframe.param_values.val # iframe.param_dict

\* C10: after any sequence of calls of loss and of propagations the initial
\* parameter vector and the time grid hold their original values, every call
\* starts from them, and the value loss returns for given coefficients is the
\* value it returned for them the first time.
C10_Fixed ==
    /\ param_values_init = original.param_values_init
    /\ time_steps = original.time_steps
    /\ cframe.pc = "call" =>
          /\ iframe.time_steps = original.time_steps
          /\ iframe.updates = 0 => Deref(iframe.param_values) = original.param_values_init
    /\ (cframe.pc = "done" /\ cframe.caller = "loss") =>
          cframe.loss_fn = returned[<<"loss", cframe.H_coeffs>>]

\* loss has returned a second time for the same coefficients, after
\* propagations that moved theta away from its initial value.
C10_Witness ==
    /\ calls = 2
    /\ cframe.pc = "done"
    /\ cframe.caller = "loss"
    /\ DOMAIN returned = {<<"loss", cframe.H_coeffs>>}
    /\ iframe.updates > 0
    /\ cframe.param_values # param_values_init

\* C11 (as stated): loss returns no value whenever an entry of the model
\* probability vector is <= 0, an entry whose target probability is 0
\* included: a call of loss that has returned had every entry positive.
C11_Fails ==
    (cframe.pc = "done" /\ cframe.caller = "loss") =>
        \A k \in DOMAIN cframe.p_qbm : cframe.p_qbm[k] > 0

\* C12 (as stated): when the length of the supplied parameter vector differs
\* from the number of parameters of the ansatz, no parameter binding is built
\* from it, the propagation does not return, and the failure is
\* DimensionMismatch.
C12_DimensionMismatch ==
    (cframe.pc # "idle" /\ Len(original.param_values_init) # Len(ansatz.ordered_parameters)) =>
        /\ iframe.param_dict = NoDict
        /\ iframe.pc # "return"
        /\ iframe.pc = "error" => iframe.raised = "DimensionMismatch"

\* C13: the matrix QFI returns is symmetric, qfi[k][l] = qfi[l][k] for all k, l
\* (the overlap being a function of the vector of shifts).
C13_Symmetric ==
    qframe.pc = "return" =>
        \A k \in DOMAIN qentry : \A l \in DOMAIN qentry :
            qframe.qfi[k][l] = qframe.qfi[l][k]

\* QFI has returned a matrix with a nonzero off-diagonal entry for an ansatz
\* whose overlap under the shifts (+,-) differs from that under (-,+).
C13_Witness ==
    /\ qframe.pc = "return"
    /\ qframe.evals > 0
    /\ \E k \in DOMAIN qentry : \E l \in DOMAIN qentry \ {k} :
          /\ qframe.qfi[k][l] # 0
          /\ qframe.qfi[l][k] # 0
          /\ O(k, 1, l, -1) # O(k, -1, l, 1)

\* C14: after QFI has processed any ordered pair (i,j), the diagonal pairs
\* i = j included, and when it returns, the parameter mapping holds exactly
\* its entry values.
C14_Restored ==
    qframe.pc \in {"pp", "return"} => qframe.parameter_dict = qentry

\* QFI has just processed the diagonal pair (1,1), with both shifts on
\* parameter 1, and written its entry.
C14_Witness ==
    /\ qframe.pc = "pp"
    /\ qframe.i = 1
    /\ qframe.j = 2
    /\ qframe.evals = 4
    /\ qframe.qfi[1][1] # 0
    /\ qframe.parameter_dict = qentry

\* The number of overlap evaluations made before the step at which f stands.
EvalsBefore(f) ==
    LET n == Cardinality(DOMAIN f.parameter_dict)
    IN  CASE f.pc = "return"  -> 4 * n * n
          [] f.pc = "pp"      -> 4 * ((f.i - 1) * n + (f.j - 1))
          [] f.pc = "pm"      -> 4 * ((f.i - 1) * n + (f.j - 1)) + 1
          [] f.pc = "mm"      -> 4 * ((f.i - 1) * n + (f.j - 1)) + 2
          [] f.pc = "mp"      -> 4 * ((f.i - 1) * n + (f.j - 1)) + 3
          [] f.pc = "restore" -> 4 * ((f.i - 1) * n + (f.j - 1)) + 4

\* C17: QFI makes exactly 4 overlap evaluations for each ordered pair (k,l),
\* the pairs (k,l) and (l,k) each with their own, 4 * |theta|^2 when it
\* returns; and an entry of the result changes only in an evaluation of its
\* own pair.
C17_Evaluations ==
    /\ [](qframe.evals = EvalsBefore(qframe))
    /\ [][ \A k \in DOMAIN qframe.qfi : \A l \in DOMAIN qframe.qfi :
              qframe'.qfi[k][l] # qframe.qfi[k][l] =>
                  /\ k = qframe.i
                  /\ l = qframe.j
                  /\ qframe'.evals = qframe.evals + 1
                  /\ qframe.pc \in {"pp", "pm", "mm", "mp"}
        ]_vars

\* QFI has returned after 4 * |theta|^2 evaluations, with entry (1,2) written.
C17_Witness ==
    /\ qframe.pc = "return"
    /\ qframe.evals = 4 * NumParams * NumParams
    /\ qframe.qfi[1][2] # 0
    /\ qframe.qfi[2][1] = qframe.qfi[1][2]

\* C16: in every step the gradient and the metric tensor are evaluated around
\* the same base theta, the integrator's theta of that step: gradient leaves
\* the mapping at theta, the metric tensor's bound state is that mapping, and
\* the matrix solved is built from the metric tensor computed in that step.
C16_SameBase ==
    [][ iframe'.updates = iframe.updates + 1 =>
          LET theta == Theta(iframe)
              g     == gradient(iframe.op, theta)
              q     == QFI(ansatz_op, g.parameter_dict)
          IN  /\ g.parameter_dict = theta
              /\ iframe'.meas = theta
              /\ q.meas = theta
              /\ iframe'.qfi = q.qfi
              /\ iframe'.lhs = Regularize(q.qfi)
              /\ iframe'.grad = g.gradient
      ]_vars

\* A second step has evaluated the gradient and the metric tensor at a theta
\* that differs from the initial one, with a gradient that is not zero.
C16_Witness ==
    /\ iframe.updates >= 2
    /\ iframe.meas # original.param_values_init
    /\ iframe.meas = iframe.param_dict
    /\ \E k \in DOMAIN iframe.grad : iframe.grad[k] # 0

\* C18: in the reference instantiation (the grid is num_time_steps evenly
\* spaced points from 0 to t) the number of Euler updates of one propagation
\* times the step size of each equals t.
C18_TotalTime ==
    iframe.pc = "return" =>
        /\ iframe.updates * iframe.delta = t
        /\ iframe.time_steps = Linspace(t, num_time_steps)

\* A propagation over a grid of two points or more has returned.
C18_Witness ==
    /\ iframe.pc = "return"
    /\ Len(iframe.time_steps) >= 2
    /\ iframe.updates >= 2
    /\ iframe.time_steps[Len(iframe.time_steps)] = t

\* C15 (as stated): two invocations of get_gibbs_state_params with equal
\* operator, ansatz, initial theta and time grid return equal theta, whatever
\* the values of the module-level names t, num_time_steps and ansatz_op at the
\* time of each call: the cell's call returns what its first call with these
\* coefficients returned.
C15_ExplicitInputs ==
    /\ param_values_init = original.param_values_init
    /\ time_steps = original.time_steps
    /\ (cframe.pc = "done" /\ cframe.caller = "cell") =>
          cframe.param_values = returned[<<"cell", cframe.H_coeffs>>]

====
